---- MODULE Spec2Model ----
(***************************************************************************)
(* Model of logcleaner's cleanLog (src/go/logcleaner.go, lines 245-396):   *)
(* backup by copy, line reader, fused date-filter/merge loop, trim,        *)
(* buffered write to a temp file, commit rename, and the double-copy       *)
(* rollback.  Text is modelled character by character: a file is a         *)
(* sequence of one-character strings, "\n" included.                       *)
(*                                                                         *)
(* Scaling: the layout "2006-01-02 15:04:05" (19 characters, six numeric   *)
(* fields) is represented by a layout of two digit fields, so a timestamp  *)
(* is two digits and its value is the number they spell.  bufio's 4096     *)
(* byte writer buffer is represented by WriterBufSize characters.          *)
(*                                                                         *)
(* Spec is one run of the command: RunE's validation of max_lines (lines   *)
(* 419-432), then cleanLog.  RunsSpec lets the command be run again on the *)
(* same target, within the same clock second or a later one, which decides *)
(* whether the backup name of line 289 is reused.                          *)
(* ReaderSpec is one run on files whose lines are around the limit of the  *)
(* line scanner, bufio.MaxScanTokenSize, represented by MaxScanTokenSize   *)
(* characters.                                                             *)
(***************************************************************************)
EXTENDS Integers, Sequences, FiniteSets, TLC

\* ------------------------------------------------------------------ bounds
MaxLines == 3
MaxRowsBound == 2
WriterBufSize == 3
\* runs of the command on the same target, and the lines of the file they start on
MaxRuns == 2
RunsMaxLines == 2
\* bufio.MaxScanTokenSize (64 KiB) and the 1 MiB a line may have by the
\* specification, scaled to characters; the lines of the reader's own files
MaxScanTokenSize == 12
LineCapMiB == 13
ReaderMaxLines == 2

\* ------------------------------------------------------- text helper basics
NL == "\n"
CR == "\r"
SP == " "

Prefix(s, n) == SubSeq(s, 1, n)
Suffix(s, n) == SubSeq(s, n + 1, Len(s))

\* strings.Contains(text, stub): stub occurs as a contiguous substring
Contains(text, stub) ==
  \E i \in 0..(Len(text) - Len(stub)) : SubSeq(text, i + 1, i + Len(stub)) = stub

\* --------------------------------------------------------------- time.Parse
logDateFormat == <<"D", "D">>

Digits == {"0", "1", "2", "5"}

DigitVal(c) == CASE c = "0" -> 0 [] c = "1" -> 1 [] c = "2" -> 2 [] c = "5" -> 5 [] OTHER -> 0

RECURSIVE NumVal(_)
NumVal(s) == IF s = <<>> THEN 0 ELSE 10 * NumVal(Prefix(s, Len(s) - 1)) + DigitVal(s[Len(s)])

\* time.Parse(layout, value): the whole value must match the layout, every
\* field a digit; the result is [err, t]
timeParse(layout, value) ==
  IF Len(value) = Len(layout) /\ \A i \in 1..Len(value) : value[i] \in Digits
  THEN [err |-> FALSE, t |-> NumVal(value)]
  ELSE [err |-> TRUE, t |-> 0]

\* ------------------------------------------------------------ strconv.Atoi
DecimalDigits == <<"0", "1", "2", "3", "4", "5", "6", "7", "8", "9">>

DecimalVal(c) == (CHOOSE i \in 1..10 : DecimalDigits[i] = c) - 1

RECURSIVE DecimalNum(_)
DecimalNum(s) ==
  IF s = <<>> THEN 0
  ELSE 10 * DecimalNum(Prefix(s, Len(s) - 1)) + DecimalVal(s[Len(s)])

\* strconv.Atoi(s): an optional sign, then one or more decimal digits; the
\* result is [err, n]
Atoi(s) ==
  LET signed == s # <<>> /\ s[1] \in {"-", "+"}
      body   == IF signed THEN Tail(s) ELSE s
  IN  IF body = <<>> \/ \E i \in 1..Len(body) : \A d \in 1..10 : DecimalDigits[d] # body[i]
      THEN [err |-> TRUE, n |-> 0]
      ELSE [err |-> FALSE,
            n |-> IF s[1] = "-" THEN 0 - DecimalNum(body) ELSE DecimalNum(body)]

\* the decimal text of a number below 100
Itoa(n) ==
  IF n < 10 THEN << DecimalDigits[n + 1] >>
  ELSE << DecimalDigits[(n \div 10) + 1], DecimalDigits[(n % 10) + 1] >>

\* ------------------------------------------------------ bufio.Scanner lines
\* bufio.ScanLines drops one trailing carriage return of a line
dropCR(line) ==
  IF Len(line) > 0 /\ line[Len(line)] = CR THEN Prefix(line, Len(line) - 1) ELSE line

\* scanner.Scan/Text loop: split on "\n"; a final line without "\n" is still
\* a line; an empty tail after the last "\n" is not
RECURSIVE ScanLines(_, _)
ScanLines(data, cur) ==
  IF data = <<>> THEN (IF cur = <<>> THEN <<>> ELSE <<dropCR(cur)>>)
  ELSE IF Head(data) = NL THEN <<dropCR(cur)>> \o ScanLines(Tail(data), <<>>)
  ELSE ScanLines(Tail(data), Append(cur, Head(data)))

\* some line of data has at least limit characters before its "\n" (n is the
\* length of the line being read)
RECURSIVE LineAtLeast(_, _, _)
LineAtLeast(data, n, limit) ==
  IF n >= limit THEN TRUE
  ELSE IF data = <<>> THEN FALSE
  ELSE IF Head(data) = NL THEN LineAtLeast(Tail(data), 0, limit)
  ELSE LineAtLeast(Tail(data), n + 1, limit)

\* scanner.Err() = bufio.ErrTooLong: the scanner's buffer, which grows to
\* MaxScanTokenSize, is full and holds no "\n"
TokenTooLong(data) == LineAtLeast(data, 0, MaxScanTokenSize)

\* --------------------------------------------------------------- the inputs
\* candidate log lines: a timestamped line, an older timestamped line
\* carrying text, a line as long as the layout that does not parse, and a
\* line shorter than the layout
LineChoices ==
  { <<"2", "1">>, <<"0", "5", "x">>, <<"x", "1">>, <<"y">> }

\* the third argument of cleanLog: empty, not a date, two dates
DateChoices == { <<>>, <<"z", "z">>, <<"2", "1">>, <<"0", "5">> }

\* the second argument of the command: not a number, a negative number,
\* zero, and the positive numbers up to the bound
RowsChoices ==
  { <<"x">>, <<"-", "1">>, <<"0">> } \cup { Itoa(n) : n \in 1..MaxRowsBound }

\* lists of exclusion stubs
ExcludeChoices == { <<>>, << <<"x">> >>, << <<"y", " ">>, <<"5", "x">> >> }

RECURSIVE SeqsUpTo(_, _)
SeqsUpTo(S, n) ==
  IF n = 0 THEN { <<>> }
  ELSE LET shorter == SeqsUpTo(S, n - 1)
       IN shorter \cup { Append(s, x) : s \in { t \in shorter : Len(t) = n - 1 }, x \in S }

\* the bytes of a file holding the given lines; the last line may lack "\n"
RECURSIVE FileBytes(_, _)
FileBytes(lines, finalNL) ==
  IF lines = <<>> THEN <<>>
  ELSE IF Len(lines) = 1 THEN Head(lines) \o (IF finalNL THEN <<NL>> ELSE <<>>)
  ELSE Head(lines) \o <<NL>> \o FileBytes(Tail(lines), finalNL)

\* files for the line reader: a timestamped line, a line one character
\* short of the scanner's buffer limit, and a line that reaches it
LongLine == [i \in 1..MaxScanTokenSize |-> "y"]

ReaderLineChoices ==
  { <<"2", "1">>, Prefix(LongLine, MaxScanTokenSize - 1), LongLine }

ReaderFileChoices ==
  { FileBytes(ls, nl) : ls \in SeqsUpTo(ReaderLineChoices, ReaderMaxLines), nl \in BOOLEAN }

FileChoices ==
  { FileBytes(ls, nl) : ls \in SeqsUpTo(LineChoices, MaxLines), nl \in BOOLEAN }

\* ---------------------------------------------------------- the file system
\* a file name is <<kind, n>>: the target, the backup whose name carries the
\* capture second n, that backup's safety copy, the temp file of run n
path == <<"path", 0>>
BackupName(second) == <<"bak", second>>
DoubleBakName(second) == <<"bakbak", second>>
TempName(run) == <<"tmp", run>>

Files ==
  {path} \cup { BackupName(n) : n \in 1..MaxRuns }
         \cup { DoubleBakName(n) : n \in 1..MaxRuns }
         \cup { TempName(n) : n \in 1..MaxRuns }

Absent == [ex |-> FALSE, data |-> <<>>]
File(d) == [ex |-> TRUE, data |-> d]

\* the lengths a failed write or copy of d may have reached
PartialLens(d) == IF d = <<>> THEN {0} ELSE 0..(Len(d) - 1)

VARIABLES
  fs,              \* file name -> [ex, data]
  orig,            \* the bytes of the target before the run (history)
  rowsStr,         \* args[1] of the command
  argError,        \* the error RunE itself returned, "" when none
  maxRows, dateFormat, exclude,    \* the options of the run
  second,          \* the second time.Now() falls in when cleanLog starts
  runs,            \* number of the current run of the command (1-based)
  recorded,        \* capture second -> the backup an earlier run made (history)
  prevResult,      \* result of the run before this one, "none" for the first
  prevFlushErr,    \* flushErr of the run before this one (history)
  pc,              \* position inside cleanLog / rollback
  result,          \* "none" while running, then "ok" or "err"
  operationFailed, \* the flag the deferred function reads
  allLines, filteredLines, keptEntries, finalLines,
  wi,              \* index of the next entry to Fprintln (1-based)
  wbuf,            \* bytes held by the bufio.Writer
  flushErr,        \* writer.Flush() returned an error (the code drops it)
  scanErr,         \* scanner.Err() after the read loop, "" for nil
  backupCreated,   \* copyFile(path, backupPath) returned nil (history)
  rollbackCalled,  \* rollback was entered (history)
  rollbackFailed,  \* one of rollback's three steps failed (history)
  handles          \* the file handles that are open, by the name the code gives them

vars == << fs, orig, rowsStr, argError, maxRows, dateFormat, exclude, second, runs,
           recorded, prevResult, prevFlushErr, pc, result, operationFailed,
           allLines, filteredLines, keptEntries, finalLines, wi, wbuf,
           flushErr, scanErr, backupCreated, rollbackCalled, rollbackFailed, handles >>

\* what only RunE and the start of a further run change
opts == << orig, rowsStr, argError, maxRows, dateFormat, exclude, second, runs,
           recorded, prevResult, prevFlushErr >>
work == << allLines, filteredLines, keptEntries, finalLines, wi, wbuf, flushErr,
           scanErr >>
hist == << backupCreated, rollbackCalled, rollbackFailed >>

\* line 289: the backup is named after the second cleanLog starts in;
\* line 263: the safety copy is the backup's name with ".bak" appended;
\* line 370: os.CreateTemp picks a name no existing file has
backupPath == BackupName(second)
doubleBak == DoubleBakName(second)
tempPath == TempName(runs)

\* the state the command starts in, on one of the given files
InitFrom(files) ==
  /\ orig \in files
  /\ fs = [f \in Files |-> IF f = path THEN File(orig) ELSE Absent]
  /\ rowsStr \in RowsChoices
  /\ argError = ""
  /\ maxRows = 0
  /\ dateFormat \in DateChoices
  /\ exclude \in ExcludeChoices
  /\ second = 1
  /\ runs = 1
  /\ recorded = [n \in 1..MaxRuns |-> Absent]
  /\ prevResult = "none"
  /\ prevFlushErr = FALSE
  /\ pc = "runE"
  /\ result = "none"
  /\ operationFailed = FALSE
  /\ allLines = <<>>
  /\ filteredLines = <<>>
  /\ keptEntries = <<>>
  /\ finalLines = <<>>
  /\ wi = 1
  /\ wbuf = <<>>
  /\ flushErr = FALSE
  /\ backupCreated = FALSE
  /\ rollbackCalled = FALSE
  /\ rollbackFailed = FALSE
  /\ handles = {}
  /\ scanErr = ""

Init == InitFrom(FileChoices)

\* ------------------------------------------------ cleanLog: the pure stages
\* variant of isMainLogLine: lineDate.After(minDate) in place of
\* !lineDate.Before(minDate)
isMainLogLineStrict(line, minDate) ==
  /\ Len(line) >= Len(logDateFormat)
  /\ LET lineDate == timeParse(logDateFormat, Prefix(line, Len(logDateFormat)))
     IN  ~lineDate.err /\ lineDate.t > minDate

\* lines 342-350: the line is long enough, its prefix parses, and the parsed
\* time is not before minDate
isMainLogLine(line, minDate) ==
  /\ Len(line) >= Len(logDateFormat)
  /\ LET lineDate == timeParse(logDateFormat, Prefix(line, Len(logDateFormat)))
     IN  ~lineDate.err /\ ~(lineDate.t < minDate)

\* variant of FilterLoop: a continuation is joined with a newline
RECURSIVE FilterLoopNewline(_, _, _, _)
FilterLoopNewline(lines, minDate, acc, last) ==
  IF lines = <<>> THEN acc
  ELSE LET line == Head(lines)
       IN IF isMainLogLine(line, minDate)
          THEN FilterLoopNewline(Tail(lines), minDate, Append(acc, line), Len(acc) + 1)
          ELSE IF last # 0
          THEN FilterLoopNewline(Tail(lines), minDate,
                                 [acc EXCEPT ![last] = @ \o <<NL>> \o line], last)
          ELSE FilterLoopNewline(Tail(lines), minDate, acc, last)

\* variant of FilterLoop: a line met before any entry was kept is not
\* discarded, it becomes an entry
RECURSIVE FilterLoopKeepOrphans(_, _, _, _)
FilterLoopKeepOrphans(lines, minDate, acc, last) ==
  IF lines = <<>> THEN acc
  ELSE LET line == Head(lines)
       IN IF isMainLogLine(line, minDate) \/ last = 0
          THEN FilterLoopKeepOrphans(Tail(lines), minDate, Append(acc, line), Len(acc) + 1)
          ELSE FilterLoopKeepOrphans(Tail(lines), minDate,
                                     [acc EXCEPT ![last] = @ \o <<SP>> \o line], last)

\* variant of FilterLoop: a continuation is put in front of the entry's text
RECURSIVE FilterLoopPrepend(_, _, _, _)
FilterLoopPrepend(lines, minDate, acc, last) ==
  IF lines = <<>> THEN acc
  ELSE LET line == Head(lines)
       IN IF isMainLogLine(line, minDate)
          THEN FilterLoopPrepend(Tail(lines), minDate, Append(acc, line), Len(acc) + 1)
          ELSE IF last # 0
          THEN FilterLoopPrepend(Tail(lines), minDate,
                                 [acc EXCEPT ![last] = line \o <<SP>> \o @], last)
          ELSE FilterLoopPrepend(Tail(lines), minDate, acc, last)

\* lines 337-358: the loop over allLines.  acc is filteredLines; last is
\* lastKeptIndex, 1-based here, 0 standing for the source's -1
RECURSIVE FilterLoop(_, _, _, _)
FilterLoop(lines, minDate, acc, last) ==
  IF lines = <<>> THEN acc
  ELSE LET line == Head(lines)
       IN IF isMainLogLine(line, minDate)
          THEN FilterLoop(Tail(lines), minDate, Append(acc, line), Len(acc) + 1)
          ELSE IF last # 0
          THEN FilterLoop(Tail(lines), minDate,
                          [acc EXCEPT ![last] = @ \o <<SP>> \o line], last)
          ELSE FilterLoop(Tail(lines), minDate, acc, last)

\* variant of DateFilter: the skipped branch forgets filteredLines = allLines
DateFilterNil(lines, df) ==
  LET parsed == timeParse(logDateFormat, df)
  IN  IF parsed.err THEN <<>> ELSE FilterLoop(lines, parsed.t, <<>>, 0)

\* variant of DateFilter: dateParseErr is not looked at, the loop runs with
\* the zero time time.Parse returned
DateFilterZeroTime(lines, df) ==
  FilterLoop(lines, timeParse(logDateFormat, df).t, <<>>, 0)

\* lines 326-359: parse the date argument; when it does not parse the filter
\* is skipped and every line is kept as it is
DateFilter(lines, df) ==
  LET parsed == timeParse(logDateFormat, df)
  IN  IF parsed.err THEN lines ELSE FilterLoop(lines, parsed.t, <<>>, 0)

\* exclusion filter: drop every entry whose text contains one of the stubs
Excluded(entry, stubs) == \E j \in 1..Len(stubs) : Contains(entry, stubs[j])

\* variant of ExcludeFilter: only the first stub is looked at
ExcludeFilterFirstStub(entries, stubs) ==
  SelectSeq(entries, LAMBDA e : ~(stubs # <<>> /\ Contains(e, stubs[1])))

ExcludeFilter(entries, stubs) == SelectSeq(entries, LAMBDA e : ~Excluded(e, stubs))

\* variant of Trim: startIndex is one too small, one entry too many is kept
TrimOffByOne(entries, rows) ==
  IF Len(entries) > rows
  THEN SubSeq(entries, Len(entries) - rows, Len(entries))
  ELSE entries

\* variant of Trim: the slice is taken from the front
TrimHead(entries, rows) ==
  IF Len(entries) > rows THEN SubSeq(entries, 1, rows) ELSE entries

\* lines 361-367: keep the last rows entries
Trim(entries, rows) ==
  IF Len(entries) > rows
  THEN SubSeq(entries, Len(entries) - rows + 1, Len(entries))
  ELSE entries

\* bufio.Writer.Write(p) with buf buffered and every write to the file
\* succeeding: [buf |-> what stays buffered, out |-> what reached the file]
RECURSIVE BufWrite(_, _, _)
BufWrite(buf, out, p) ==
  IF Len(p) > WriterBufSize - Len(buf)
  THEN IF buf = <<>>
       THEN [buf |-> <<>>, out |-> out \o p]
       ELSE LET n == WriterBufSize - Len(buf)
            IN  BufWrite(<<>>, out \o buf \o Prefix(p, n), Suffix(p, n))
  ELSE [buf |-> buf \o p, out |-> out]

\* variant of Fprintln: a space is written between the line and its "\n"
FprintlnTrailingSpace(buf, line) == BufWrite(buf, <<>>, line \o <<SP, NL>>)

\* fmt.Fprintln(writer, line): the line and one "\n" in a single Write
Fprintln(buf, line) == BufWrite(buf, <<>>, line \o <<NL>>)

\* ------------------------------------------------------------ main: RunE
\* variant of RunE: only negative numbers are refused (rows < 0)
RunENonNegative ==
  /\ pc = "runE"
  /\ LET rows == Atoi(rowsStr)
     IN  IF rows.err
         THEN /\ argError' = "max_lines must be a number"
              /\ pc' = "done" /\ result' = "err"
              /\ UNCHANGED maxRows
         ELSE IF rows.n < 0
         THEN /\ argError' = "max_lines must be a positive number"
              /\ pc' = "done" /\ result' = "err"
              /\ UNCHANGED maxRows
         ELSE /\ maxRows' = rows.n
              /\ pc' = "start"
              /\ UNCHANGED << argError, result >>
  /\ UNCHANGED << fs, orig, rowsStr, dateFormat, exclude, second, runs, recorded,
                  prevResult, prevFlushErr, work, hist, operationFailed >>
  /\ UNCHANGED handles

\* lines 419-432: args[1] must be a number and positive, else RunE returns an
\* error without calling cleanLog
RunE ==
  /\ pc = "runE"
  /\ LET rows == Atoi(rowsStr)
     IN  IF rows.err
         THEN /\ argError' = "max_lines must be a number"
              /\ pc' = "done" /\ result' = "err"
              /\ UNCHANGED maxRows
         ELSE IF rows.n <= 0
         THEN /\ argError' = "max_lines must be a positive number"
              /\ pc' = "done" /\ result' = "err"
              /\ UNCHANGED maxRows
         ELSE /\ maxRows' = rows.n
              /\ pc' = "start"
              /\ UNCHANGED << argError, result >>
  /\ UNCHANGED << fs, orig, rowsStr, dateFormat, exclude, second, runs, recorded,
                  prevResult, prevFlushErr, work, hist, operationFailed >>
  /\ UNCHANGED handles

\* ------------------------------------------------------------ cleanLog: I/O
\* return err before the deferred function is registered (line 291)
ReturnEarly ==
  /\ pc' = "done"
  /\ result' = "err"
  /\ handles' = handles \ { "source", "destination" }

\* variant of FailAndRollback: file.Close() is deferred before the rollback
\* closure, so rollback runs with the backup still open
FailAndRollbackFileOpen ==
  /\ operationFailed' = TRUE
  /\ pc' = "rollback"
  /\ UNCHANGED handles

\* operationFailed = true; return err: the deferred file.Close() runs, then
\* the deferred function runs rollback
FailAndRollback ==
  /\ operationFailed' = TRUE
  /\ pc' = "rollback"
  /\ handles' = handles \ { "file" }

\* variant of BackupCreate: the deferred function is registered before the
\* backup is made, and a failed backup sets operationFailed
BackupCreateDeferFirst ==
  /\ pc = "start"
  /\ \/ /\ fs' = [fs EXCEPT ![backupPath] = File(<<>>)]
        /\ pc' = "backup_copy"
        /\ handles' = { "source", "destination" }
        /\ UNCHANGED operationFailed
     \/ /\ FailAndRollback
        /\ UNCHANGED fs
  /\ UNCHANGED << opts, work, hist, result >>

\* copyFile(path, backupPath), lines 246-255: open the source, create (and
\* truncate) the destination; either may fail
BackupCreate ==
  /\ pc = "start"
  /\ \/ /\ fs' = [fs EXCEPT ![backupPath] = File(<<>>)]
        /\ pc' = "backup_copy"
        /\ handles' = { "source", "destination" }
        /\ UNCHANGED result
     \/ /\ ReturnEarly
        /\ UNCHANGED fs
  /\ UNCHANGED << opts, work, hist, operationFailed >>

\* variant of BackupCopy: the error of io.Copy is dropped, a partial copy
\* counts as the backup
BackupCopyIgnoreErr ==
  /\ pc = "backup_copy"
  /\ \/ fs' = [fs EXCEPT ![backupPath] = File(fs[path].data)]
     \/ \E k \in PartialLens(fs[path].data) :
          fs' = [fs EXCEPT ![backupPath] = File(Prefix(fs[path].data, k))]
  /\ backupCreated' = TRUE
  /\ pc' = "open_backup"
  /\ UNCHANGED << opts, work, operationFailed, rollbackCalled, rollbackFailed, result >>
  /\ handles' = handles \ { "source", "destination" }

\* copyFile(path, backupPath), lines 256-257 and 290-292: io.Copy completes,
\* or fails having written part of the source
BackupCopy ==
  /\ pc = "backup_copy"
  /\ \/ /\ fs' = [fs EXCEPT ![backupPath] = File(fs[path].data)]
        /\ backupCreated' = TRUE
        /\ pc' = "open_backup"
        /\ handles' = handles \ { "source", "destination" }
        /\ UNCHANGED result
     \/ /\ \E k \in PartialLens(fs[path].data) :
             fs' = [fs EXCEPT ![backupPath] = File(Prefix(fs[path].data, k))]
        /\ ReturnEarly
        /\ UNCHANGED backupCreated
  /\ UNCHANGED << opts, work, operationFailed, rollbackCalled, rollbackFailed >>

\* lines 303-308: os.Open(backupPath)
OpenBackup ==
  /\ pc = "open_backup"
  /\ \/ /\ pc' = "read"
        /\ handles' = handles \cup { "file" }
        /\ UNCHANGED operationFailed
     \/ FailAndRollback
  /\ UNCHANGED << fs, opts, work, hist, result >>

\* variant of ReadLines: the empty log is not returned on, it goes through
\* the filter, the temp file and the rename like any other
ReadLinesNoEmptyCheck ==
  /\ pc = "read"
  /\ \/ /\ ~TokenTooLong(fs[backupPath].data)
        /\ allLines' = ScanLines(fs[backupPath].data, <<>>)
        /\ scanErr' = ""
        /\ pc' = "filter"
        /\ UNCHANGED << result, operationFailed, handles >>
     \/ /\ TokenTooLong(fs[backupPath].data)
        /\ scanErr' = "token too long"
        /\ FailAndRollback
        /\ UNCHANGED << allLines, result >>
     \/ /\ scanErr' = "read error"
        /\ FailAndRollback
        /\ UNCHANGED << allLines, result >>
  /\ UNCHANGED << fs, opts, hist, filteredLines, keptEntries, finalLines, wi, wbuf,
                  flushErr >>

\* lines 311-324: read every line; a scanner error (a line that does not fit
\* the scanner's buffer, or a failed read) fails the run, an empty file ends
\* it with success
ReadLines ==
  /\ pc = "read"
  /\ \/ /\ ~TokenTooLong(fs[backupPath].data)
        /\ allLines' = ScanLines(fs[backupPath].data, <<>>)
        /\ scanErr' = ""
        /\ IF allLines' = <<>>
           THEN pc' = "done" /\ result' = "ok" /\ handles' = handles \ { "file" }
           ELSE pc' = "filter" /\ UNCHANGED << result, handles >>
        /\ UNCHANGED operationFailed
     \/ /\ TokenTooLong(fs[backupPath].data)
        /\ scanErr' = "token too long"
        /\ FailAndRollback
        /\ UNCHANGED << allLines, result >>
     \/ /\ scanErr' = "read error"
        /\ FailAndRollback
        /\ UNCHANGED << allLines, result >>
  /\ UNCHANGED << fs, opts, hist, filteredLines, keptEntries, finalLines, wi, wbuf,
                  flushErr >>

\* lines 326-359: date filtering and merging
FilterLines ==
  /\ pc = "filter"
  /\ filteredLines' = DateFilter(allLines, dateFormat)
  /\ pc' = "exclude"
  /\ UNCHANGED << fs, opts, hist, result, operationFailed,
                  allLines, keptEntries, finalLines, wi, wbuf, flushErr >>
  /\ UNCHANGED handles
  /\ UNCHANGED scanErr

\* content exclusion over the merged entries
ExcludeEntries ==
  /\ pc = "exclude"
  /\ keptEntries' = ExcludeFilter(filteredLines, exclude)
  /\ pc' = "trim"
  /\ UNCHANGED << fs, opts, hist, result, operationFailed,
                  allLines, filteredLines, finalLines, wi, wbuf, flushErr >>
  /\ UNCHANGED handles
  /\ UNCHANGED scanErr

\* lines 361-367: trim to max_lines
TrimLines ==
  /\ pc = "trim"
  /\ finalLines' = Trim(keptEntries, maxRows)
  /\ pc' = "create_temp"
  /\ UNCHANGED << fs, opts, hist, result, operationFailed,
                  allLines, filteredLines, keptEntries, wi, wbuf, flushErr >>
  /\ UNCHANGED handles
  /\ UNCHANGED scanErr

\* lines 370-377: os.CreateTemp next to the target, bufio.NewWriter
CreateTemp ==
  /\ pc = "create_temp"
  /\ \/ /\ fs' = [fs EXCEPT ![tempPath] = File(<<>>)]
        /\ wi' = 1
        /\ wbuf' = <<>>
        /\ pc' = "write"
        /\ handles' = handles \cup { "tempFile" }
        /\ UNCHANGED operationFailed
     \/ /\ FailAndRollback
        /\ UNCHANGED << fs, wi, wbuf >>
  /\ UNCHANGED << opts, hist, result, allLines, filteredLines, keptEntries, finalLines,
                  flushErr >>
  /\ UNCHANGED scanErr

\* lines 378-384: one Fprintln.  It fails only when the buffer had to be
\* written out and that write failed part way; then the file is closed and
\* the run fails
WriteLine ==
  /\ pc = "write"
  /\ wi <= Len(finalLines)
  /\ LET w == Fprintln(wbuf, finalLines[wi])
     IN \/ /\ fs' = [fs EXCEPT ![tempPath].data = @ \o w.out]
           /\ wbuf' = w.buf
           /\ wi' = wi + 1
           /\ pc' = "write"
           /\ UNCHANGED << operationFailed, handles >>
        \/ /\ w.out # <<>>
           /\ \E k \in PartialLens(w.out) :
                fs' = [fs EXCEPT ![tempPath].data = @ \o Prefix(w.out, k)]
           /\ operationFailed' = TRUE
           /\ pc' = "rollback"
           /\ handles' = handles \ { "tempFile", "file" }
           /\ UNCHANGED << wi, wbuf >>
  /\ UNCHANGED << opts, hist, result, allLines, filteredLines, keptEntries, finalLines,
                  flushErr >>
  /\ UNCHANGED scanErr

\* lines 385-386: writer.Flush() and tempFile.Close(); neither result is
\* looked at, so a failed flush leaves a part of the buffer unwritten and
\* the run goes on
FlushAndClose ==
  /\ pc = "write"
  /\ wi > Len(finalLines)
  /\ \/ /\ fs' = [fs EXCEPT ![tempPath].data = @ \o wbuf]
        /\ UNCHANGED flushErr
     \/ /\ wbuf # <<>>
        /\ \E k \in PartialLens(wbuf) :
             fs' = [fs EXCEPT ![tempPath].data = @ \o Prefix(wbuf, k)]
        /\ flushErr' = TRUE
  /\ wbuf' = <<>>
  /\ pc' = "rename"
  /\ UNCHANGED << opts, hist, result, operationFailed,
                  allLines, filteredLines, keptEntries, finalLines, wi >>
  /\ handles' = handles \ { "tempFile" }
  /\ UNCHANGED scanErr

\* variant of AtomicMove: the failed rename returns without setting
\* operationFailed
AtomicMoveNoFlag ==
  /\ pc = "rename"
  /\ \/ /\ fs' = [fs EXCEPT ![path] = fs[tempPath], ![tempPath] = Absent]
        /\ pc' = "done"
        /\ result' = "ok"
     \/ /\ pc' = "done"
        /\ result' = "err"
        /\ UNCHANGED fs
  /\ UNCHANGED << opts, work, hist, operationFailed >>
  /\ handles' = handles \ { "file" }

\* lines 389-395: os.Rename(tempPath, path)
AtomicMove ==
  /\ pc = "rename"
  /\ \/ /\ fs' = [fs EXCEPT ![path] = fs[tempPath], ![tempPath] = Absent]
        /\ pc' = "done"
        /\ result' = "ok"
        /\ handles' = handles \ { "file" }
        /\ UNCHANGED operationFailed
     \/ /\ FailAndRollback
        /\ UNCHANGED << fs, result >>
  /\ UNCHANGED << opts, work, hist >>

\* ----------------------------------------------------------------- rollback
\* rollback returns; cleanLog then returns the error it failed with
RollbackReturn ==
  /\ pc' = "done"
  /\ result' = "err"
  /\ handles' = handles \ { "source", "destination" }

\* variant of RollbackSafetyCreate: doubleBak lacks its ".bak" suffix, so the
\* safety copy is created over the backup itself
RollbackSafetyCreateOverBackup ==
  /\ pc = "rollback"
  /\ operationFailed
  /\ rollbackCalled' = TRUE
  /\ \/ /\ fs' = [fs EXCEPT ![backupPath] = File(<<>>)]
        /\ pc' = "rb_copy"
        /\ handles' = handles \cup { "source", "destination" }
        /\ UNCHANGED << result, rollbackFailed >>
     \/ /\ rollbackFailed' = TRUE
        /\ RollbackReturn
        /\ UNCHANGED fs
  /\ UNCHANGED << opts, work, operationFailed, backupCreated >>

\* lines 261-269 with copyFile 246-255: open the backup, create the safety
\* copy
RollbackSafetyCreate ==
  /\ pc = "rollback"
  /\ operationFailed
  /\ rollbackCalled' = TRUE
  /\ \/ /\ fs' = [fs EXCEPT ![doubleBak] = File(<<>>)]
        /\ pc' = "rb_copy"
        /\ handles' = handles \cup { "source", "destination" }
        /\ UNCHANGED << result, rollbackFailed >>
     \/ /\ rollbackFailed' = TRUE
        /\ RollbackReturn
        /\ UNCHANGED fs
  /\ UNCHANGED << opts, work, operationFailed, backupCreated >>

\* variant of RollbackSafetyCopy: copyFile's error is not looked at, rollback
\* goes on to the renames with a partial safety copy
RollbackSafetyCopyIgnoreErr ==
  /\ pc = "rb_copy"
  /\ \/ fs' = [fs EXCEPT ![doubleBak] = File(fs[backupPath].data)]
     \/ \E k \in PartialLens(fs[backupPath].data) :
          fs' = [fs EXCEPT ![doubleBak] = File(Prefix(fs[backupPath].data, k))]
  /\ pc' = "rb_restore"
  /\ UNCHANGED << opts, work, operationFailed, backupCreated, rollbackCalled,
                  result, rollbackFailed >>
  /\ handles' = handles \ { "source", "destination" }

\* lines 266-269 with copyFile 256-257: io.Copy into the safety copy
RollbackSafetyCopy ==
  /\ pc = "rb_copy"
  /\ \/ /\ fs' = [fs EXCEPT ![doubleBak] = File(fs[backupPath].data)]
        /\ pc' = "rb_restore"
        /\ handles' = handles \ { "source", "destination" }
        /\ UNCHANGED << result, rollbackFailed >>
     \/ /\ \E k \in PartialLens(fs[backupPath].data) :
             fs' = [fs EXCEPT ![doubleBak] = File(Prefix(fs[backupPath].data, k))]
        /\ rollbackFailed' = TRUE
        /\ RollbackReturn
  /\ UNCHANGED << opts, work, operationFailed, backupCreated, rollbackCalled >>

\* lines 272-275: os.Rename(backupPath, originalPath)
RollbackRestore ==
  /\ pc = "rb_restore"
  /\ \/ /\ fs' = [fs EXCEPT ![path] = fs[backupPath], ![backupPath] = Absent]
        /\ pc' = "rb_keep"
        /\ UNCHANGED handles
        /\ UNCHANGED << result, rollbackFailed >>
     \/ /\ rollbackFailed' = TRUE
        /\ RollbackReturn
        /\ UNCHANGED fs
  /\ UNCHANGED << opts, work, operationFailed, backupCreated, rollbackCalled >>

\* variant of RollbackKeepBackup: the safety copy is copied into the backup
\* slot, not renamed
RollbackKeepBackupCopy ==
  /\ pc = "rb_keep"
  /\ \/ /\ fs' = [fs EXCEPT ![backupPath] = fs[doubleBak]]
        /\ UNCHANGED rollbackFailed
     \/ /\ rollbackFailed' = TRUE
        /\ UNCHANGED fs
  /\ RollbackReturn
  /\ UNCHANGED << opts, work, operationFailed, backupCreated, rollbackCalled >>

\* lines 278-284: os.Rename(doubleBak, backupPath); a failure is a warning
RollbackKeepBackup ==
  /\ pc = "rb_keep"
  /\ \/ /\ fs' = [fs EXCEPT ![backupPath] = fs[doubleBak], ![doubleBak] = Absent]
        /\ UNCHANGED rollbackFailed
     \/ /\ rollbackFailed' = TRUE
        /\ UNCHANGED fs
  /\ RollbackReturn
  /\ UNCHANGED << opts, work, operationFailed, backupCreated, rollbackCalled >>

\* after a run that returned success the command is run again on the same
\* target with the same arguments; the clock has moved on to the next second,
\* or has not
NextRun ==
  /\ pc = "done"
  /\ result = "ok"
  /\ runs < MaxRuns
  /\ fs[path].ex
  /\ runs' = runs + 1
  /\ second' \in { second, second + 1 }
  /\ recorded' = IF backupCreated THEN [recorded EXCEPT ![second] = File(orig)]
                 ELSE recorded
  /\ prevResult' = result
  /\ prevFlushErr' = flushErr
  /\ orig' = fs[path].data
  /\ argError' = ""
  /\ maxRows' = 0
  /\ pc' = "runE"
  /\ result' = "none"
  /\ operationFailed' = FALSE
  /\ allLines' = <<>> /\ filteredLines' = <<>> /\ keptEntries' = <<>>
  /\ finalLines' = <<>> /\ wi' = 1 /\ wbuf' = <<>> /\ flushErr' = FALSE
  /\ backupCreated' = FALSE /\ rollbackCalled' = FALSE /\ rollbackFailed' = FALSE
  /\ UNCHANGED << fs, rowsStr, dateFormat, exclude >>
  /\ handles' = {}
  /\ scanErr' = ""

Next ==
  \/ RunE
  \/ BackupCreate
  \/ BackupCopy
  \/ OpenBackup
  \/ ReadLines
  \/ FilterLines
  \/ ExcludeEntries
  \/ TrimLines
  \/ CreateTemp
  \/ WriteLine
  \/ FlushAndClose
  \/ AtomicMove
  \/ RollbackSafetyCreate
  \/ RollbackSafetyCopy
  \/ RollbackRestore
  \/ RollbackKeepBackup

Spec == Init /\ [][Next]_vars

\* successive runs of the command on one target, from a short file
InitRuns ==
  /\ Init
  /\ Len(ScanLines(orig, <<>>)) <= RunsMaxLines

NextRuns == Next \/ NextRun

RunsSpec == InitRuns /\ [][NextRuns]_vars

\* one run of the command on a file with lines around the scanner's limit
InitReader == InitFrom(ReaderFileChoices)

ReaderSpec == InitReader /\ [][Next]_vars

TypeOK ==
  /\ pc \in { "runE", "start", "backup_copy", "open_backup", "read", "filter", "exclude",
              "trim", "create_temp", "write", "rename", "rollback", "rb_copy",
              "rb_restore", "rb_keep", "done" }
  /\ result \in { "none", "ok", "err" }
  /\ (result = "none") = (pc # "done")

\* =================================================================== claims
Holds(f, d) == fs[f].ex /\ fs[f].data = d

\* the run has left the filter loop (filteredLines is final)
Filtered ==
  \/ pc \in { "exclude", "trim", "create_temp", "write", "rename" }
  \/ (pc = "done" /\ result = "ok" /\ allLines # <<>>)

\* C1: crash safety: in every state after the backup has been created, every
\* step of the temp-file write, of the commit rename and of the rollback
\* included, one of the target, the backup and the rollback safety copy holds
\* the complete pre-run content
C1_CrashSafety ==
  backupCreated => \E f \in { path, backupPath, doubleBak } : Holds(f, orig)

\* C1 witness: in the middle of a rollback the backup slot is empty and the
\* pre-run content is held by the target and the safety copy
C1_Witness ==
  /\ backupCreated
  /\ pc = "rb_keep"
  /\ ~fs[backupPath].ex
  /\ orig # <<>>
  /\ Holds(path, orig)

\* C2: when cleanLog returns an error for a failure after the backup was
\* created, rollback has been invoked, and if rollback's own steps all
\* succeeded the target holds exactly the pre-run bytes and a backup exists
C2_FailureRollsBack ==
  (pc = "done" /\ result = "err" /\ backupCreated)
    => /\ rollbackCalled
       /\ ~rollbackFailed => (Holds(path, orig) /\ fs[backupPath].ex)

\* C2 witness: a run that failed while writing or committing the temp file
\* and whose rollback went through
C2_Witness ==
  /\ pc = "done" /\ result = "err" /\ backupCreated
  /\ rollbackCalled /\ ~rollbackFailed
  /\ fs[tempPath].ex
  /\ orig # <<>>

\* C3: if cleanLog returns success, the backup file exists and its content is
\* byte-identical to the content the target had before the run
C3_BackupOnSuccess ==
  (pc = "done" /\ result = "ok") => Holds(backupPath, orig)

\* C3 witness: a successful run that changed the target
C3_Witness ==
  /\ pc = "done" /\ result = "ok"
  /\ fs[path].data # orig
  /\ Holds(backupPath, orig)

\* ------------------------------------------------ vocabulary of the claims
Min(a, b) == IF a < b THEN a ELSE b

\* the lines a reader finds in the target
TargetLines == ScanLines(fs[path].data, <<>>)

Succeeded == pc = "done" /\ result = "ok" /\ allLines # <<>>

\* date filtering is active: the date argument parses against the layout
Active == ~timeParse(logDateFormat, dateFormat).err
MinDate == timeParse(logDateFormat, dateFormat).t

\* the leading timestamp of a text, [err, t]
Stamp(text) ==
  IF Len(text) < Len(logDateFormat) THEN [err |-> TRUE, t |-> 0]
  ELSE timeParse(logDateFormat, SubSeq(text, 1, Len(logDateFormat)))

Passing(text) == ~Stamp(text).err /\ Stamp(text).t >= MinDate
TooOld(text) == ~Stamp(text).err /\ Stamp(text).t < MinDate

\* positions of the input lines that carry a timestamp not before MinDate
PassingIdx == { i \in 1..Len(allLines) : Passing(allLines[i]) }

\* the k-th smallest element of a set of positions, and the rank of one
Nth(S, k) == CHOOSE i \in S : Cardinality({ j \in S : j <= i }) = k
Rank(S, i) == Cardinality({ j \in S : j <= i })

\* C4: on success trimming comes after all filtering: the entries written are
\* min(maxRows, entries left after filtering) many, and they are the last
\* that many entries of the filtered sequence, in order
C4_TrimAfterFilter ==
  Succeeded =>
    LET n == Min(maxRows, Len(keptEntries))
    IN  /\ Len(finalLines) = n
        /\ \A i \in 1..n : finalLines[i] = keptEntries[Len(keptEntries) - n + i]
        /\ ~flushErr => TargetLines = finalLines

\* C4 witness: a successful run in which filtering removed something and the
\* trim then cut the rest down to maxRows
C4_Witness ==
  /\ Succeeded /\ ~flushErr
  /\ Len(keptEntries) < Len(allLines)
  /\ Len(keptEntries) > maxRows
  /\ Len(TargetLines) = maxRows

\* C5: with date filtering active, the entries are exactly the lines whose
\* leading timestamp parses and is not before minDate (each heads its entry,
\* in file order); no entry begins with anything else, so every line of the
\* output starts with a parseable timestamp not before minDate
C5_DateFilter ==
  (Active /\ Filtered) =>
    /\ \A k \in 1..Len(filteredLines) : Passing(filteredLines[k])
    /\ Len(filteredLines) = Cardinality(PassingIdx)
    /\ \A i \in PassingIdx :
         SubSeq(filteredLines[Rank(PassingIdx, i)], 1, Len(allLines[i])) = allLines[i]
    /\ (Succeeded /\ ~flushErr) => \A k \in 1..Len(TargetLines) : Passing(TargetLines[k])

\* C5 witness: a successful filtered run whose input had a line without a
\* timestamp in front, a too-old line, and a line exactly at minDate
C5_Witness ==
  /\ Active /\ Succeeded /\ ~flushErr
  /\ Stamp(allLines[1]).err
  /\ \E i \in 1..Len(allLines) : TooOld(allLines[i])
  /\ \E i \in 1..Len(allLines) : ~Stamp(allLines[i]).err /\ Stamp(allLines[i]).t = MinDate
  /\ Len(TargetLines) >= 1

\* the pieces of a text between single spaces (no input line holds a space,
\* so these are the lines an entry was merged from)
RECURSIVE SplitSP(_, _)
SplitSP(text, cur) ==
  IF text = <<>> THEN <<cur>>
  ELSE IF Head(text) = SP THEN <<cur>> \o SplitSP(Tail(text), <<>>)
  ELSE SplitSP(Tail(text), Append(cur, Head(text)))

\* C6: with date filtering active no line whose leading timestamp parses and
\* is before minDate contributes text to the output, wherever it stands: a
\* too-old line after a kept entry is dropped, not appended to that entry
C6_OldLinesAbsent ==
  (Active /\ Succeeded /\ ~flushErr) =>
    \A k \in 1..Len(TargetLines) :
      LET pieces == SplitSP(TargetLines[k], <<>>)
      IN  \A j \in 1..Len(pieces) : ~TooOld(pieces[j])

\* stub occurs in text: it is a prefix of text or occurs in the rest
IsPrefixOf(stub, text) ==
  Len(stub) <= Len(text) /\ \A i \in 1..Len(stub) : stub[i] = text[i]

RECURSIVE Occurs(_, _)
Occurs(stub, text) ==
  IsPrefixOf(stub, text) \/ (text # <<>> /\ Occurs(stub, Tail(text)))

NoStub(text) == \A j \in 1..Len(exclude) : ~Occurs(exclude[j], text)

SurvivorIdx == { i \in 1..Len(filteredLines) : NoStub(filteredLines[i]) }

Excluding ==
  pc \in { "trim", "create_temp", "write", "rename" } \/ Succeeded

C8_BadDateFails ==
  (dateFormat # <<>> /\ ~Active /\ orig # <<>> /\ pc = "done" /\ ~operationFailed)
    => (result = "err" /\ ~backupCreated /\ Holds(path, orig))

\* C8 amended: a minimum-date string that does not parse does not fail the
\* run: the backup exists by then, date filtering is skipped with every line
\* read kept as an entry of its own, and the run goes on to trim and write
C8_BadDateSkipsFilter ==
  (dateFormat # <<>> /\ ~Active /\ Filtered)
    => (filteredLines = allLines /\ Holds(backupPath, orig))

\* C8 witness: a run with an unparsable date that succeeded and trimmed the
\* target
C8_Witness ==
  /\ dateFormat # <<>> /\ ~Active
  /\ Succeeded /\ ~flushErr
  /\ exclude = <<>>
  /\ Len(allLines) > maxRows
  /\ Len(TargetLines) = maxRows

\* the grouping rule of the specification: a line with a parseable prefix
\* starts an entry, so does a first line without one; any other line is
\* appended to the current entry after one space
RECURSIVE GroupRef(_, _)
GroupRef(lines, acc) ==
  IF lines = <<>> THEN acc
  ELSE IF ~Stamp(Head(lines)).err \/ acc = <<>>
       THEN GroupRef(Tail(lines), Append(acc, Head(lines)))
       ELSE GroupRef(Tail(lines),
                     [acc EXCEPT ![Len(acc)] = @ \o <<SP>> \o Head(lines)])

RECURSIVE JoinSP(_)
JoinSP(lines) ==
  IF Len(lines) = 1 THEN lines[1]
  ELSE lines[1] \o <<SP>> \o JoinSP(Tail(lines))

\* no too-old timestamped line stands after a line that is kept
NoOldAfterKept ==
  \A i \in 1..Len(allLines) :
    TooOld(allLines[i]) => \A j \in 1..(i - 1) : ~Passing(allLines[j])

BackupFiles ==
  { f \in { BackupName(n) : n \in 1..MaxRuns } \cup { DoubleBakName(n) : n \in 1..MaxRuns } :
      fs[f].ex }

\* the lines of the file the run started on
OrigLines == ScanLines(orig, <<>>)

\* the run is one of those C11 speaks of: no minimum date, no exclusion, no
\* line with a parseable timestamp in front, fewer rows asked for than lines
RawTailCase ==
  /\ dateFormat = <<>> /\ exclude = <<>>
  /\ \A i \in 1..Len(OrigLines) : Stamp(OrigLines[i]).err
  /\ maxRows < Len(OrigLines)

\* C11: with no minimum date and a file of N lines none of which begins with
\* a parseable timestamp, a successful run with maxRows = k < N leaves the
\* target holding exactly the last k raw lines, each as its own output line,
\* and leaves exactly one backup file
C11_RawTail ==
  (RawTailCase /\ Succeeded /\ ~flushErr) =>
    LET n == Len(OrigLines)
        tail == SubSeq(OrigLines, n - maxRows + 1, n)
    IN  /\ TargetLines = tail
        /\ fs[path].data = FileBytes(tail, TRUE)
        /\ BackupFiles = { backupPath }

\* C11 witness: three raw lines cut down to the last two, which differ
C11_Witness ==
  /\ RawTailCase /\ Succeeded /\ ~flushErr
  /\ Len(OrigLines) = 3 /\ maxRows = 2
  /\ OrigLines[1] # OrigLines[2] /\ OrigLines[2] # OrigLines[3]
  /\ TargetLines = << OrigLines[2], OrigLines[3] >>

\* C12: for an empty source file and any maxRows > 0 the run never enters
\* the filter, temp-file or rename stages, creates no temp file and leaves
\* the target existing and empty; unless an I/O step of the backup or of the
\* read failed it returns success, and then without any rollback
C12_EmptyFile ==
  (orig = <<>> /\ argError = "") =>
    /\ pc \notin { "filter", "exclude", "trim", "create_temp", "write", "rename" }
    /\ ~fs[tempPath].ex
    /\ Holds(path, <<>>)
    /\ (pc = "done" /\ backupCreated /\ ~operationFailed) => result = "ok"
    /\ (pc = "done" /\ result = "ok") => (~rollbackCalled /\ ~fs[doubleBak].ex)

\* C12 witness: the run on an empty file has returned success
C12_Witness ==
  /\ orig = <<>> /\ maxRows > 0
  /\ pc = "done" /\ result = "ok"
  /\ Holds(path, <<>>) /\ Holds(backupPath, <<>>)

\* C13: if creating the backup fails cleanLog returns an error at once: no
\* line is read, no temp file is created, nothing is renamed, rollback is not
\* run, and the target is byte-identical to its pre-run state
C13_BackupFailureStops ==
  (pc = "done" /\ argError = "" /\ ~backupCreated) =>
    /\ result = "err"
    /\ ~operationFailed /\ ~rollbackCalled
    /\ allLines = <<>>
    /\ ~fs[tempPath].ex /\ ~fs[doubleBak].ex
    /\ Holds(path, orig)

\* C13 witness: io.Copy into the backup failed part way; cleanLog has returned
C13_Witness ==
  /\ pc = "done" /\ argError = "" /\ ~backupCreated
  /\ orig # <<>>
  /\ fs[backupPath].ex /\ fs[backupPath].data # orig /\ fs[backupPath].data # <<>>

\* C14: if a write of the final entries to the temp file fails, also when
\* the failure shows only at the flush of the buffered writer, the run is
\* marked failed: cleanLog returns an error, rollback is triggered, and the
\* incomplete temp file is not renamed over the target
C14_WriteFailureFails ==
  (flushErr /\ pc = "done") =>
    (result = "err" /\ operationFailed /\ rollbackCalled /\ fs[tempPath].ex)

\* args[1] spells a number that is not positive
RowsNotPositive == ~Atoi(rowsStr).err /\ Atoi(rowsStr).n <= 0

\* C15: for every maxRows <= 0 the command returns the error "max_lines must
\* be a positive number" before cleanLog is invoked: no backup is created and
\* the target is not touched
C15_RowsMustBePositive ==
  RowsNotPositive =>
    /\ pc \in { "runE", "done" }
    /\ pc = "done" =>
         (result = "err" /\ argError = "max_lines must be a positive number")
    /\ ~backupCreated /\ BackupFiles = {}
    /\ ~fs[tempPath].ex
    /\ Holds(path, orig)

\* C15 witness: the command was given a negative number and has returned
C15_Witness ==
  /\ ~Atoi(rowsStr).err /\ Atoi(rowsStr).n < 0
  /\ pc = "done" /\ result = "err"
  /\ orig # <<>> /\ Holds(path, orig)

\* the lines an entry is made of: first and last position in allLines
EntryStart(k) == IF Active THEN Nth(PassingIdx, k) ELSE k
EntryEnd(k) ==
  IF ~Active THEN k
  ELSE IF k = Cardinality(PassingIdx) THEN Len(allLines)
  ELSE Nth(PassingIdx, k + 1) - 1

\* the trim has run (finalLines is final)
Trimmed == pc \in { "create_temp", "write", "rename" } \/ Succeeded

\* sub is what is left of full when the positions outside some set are
\* struck out
IsSubSeq(sub, full) ==
  \E S \in SUBSET (1..Len(full)) :
    /\ Len(sub) = Cardinality(S)
    /\ \A i \in S : sub[Rank(S, i)] = full[i]

\* C16: order is preserved: every entry is the join, in file order, of a run
\* of consecutive lines, and the runs follow each other in file order; the
\* exclusion filter and the trim only strike entries out; each entry is
\* written as exactly one newline-terminated line
C16_OrderPreserved ==
  /\ Filtered =>
       /\ Active => Len(filteredLines) = Cardinality(PassingIdx)
       /\ \A k \in 1..Len(filteredLines) :
            /\ EntryStart(k) <= EntryEnd(k)
            /\ k > 1 => EntryEnd(k - 1) < EntryStart(k)
            /\ filteredLines[k] = JoinSP(SubSeq(allLines, EntryStart(k), EntryEnd(k)))
  /\ Excluding => IsSubSeq(keptEntries, filteredLines)
  /\ Trimmed =>
       \E d \in 0..Len(keptEntries) :
         finalLines = SubSeq(keptEntries, d + 1, Len(keptEntries))
  /\ (Succeeded /\ ~flushErr) =>
       /\ \A k \in 1..Len(finalLines) :
            \A c \in 1..Len(finalLines[k]) : finalLines[k][c] # NL
       /\ fs[path].data = FileBytes(finalLines, TRUE)

\* C16 witness: three lines, the second a continuation of the first, written
\* as two lines in file order
C16_Witness ==
  /\ Active /\ Succeeded /\ ~flushErr
  /\ Len(allLines) = 3
  /\ Stamp(allLines[2]).err
  /\ allLines[1] # allLines[3]
  /\ fs[path].data =
       allLines[1] \o <<SP>> \o allLines[2] \o <<NL>> \o allLines[3] \o <<NL>>

\* C17: once a run has created its backup the content stored at that backup
\* path never changes: while the run goes on (rollback included) the file,
\* whenever it is there, holds the pre-run bytes; and when a later run on the
\* same target has returned, the file an earlier successful run left at that
\* path still holds what that run stored, also when both runs fell in the
\* same second
C17_BackupNeverChanges ==
  /\ (backupCreated /\ fs[backupPath].ex) => fs[backupPath].data = orig
  /\ \A n \in 1..MaxRuns :
       (recorded[n].ex /\ prevResult = "ok" /\ pc = "done" /\ result = "ok")
         => Holds(BackupName(n), recorded[n].data)

\* C18: rollback's steps and their order: (1) the safety copy is made while
\* backup and target are as they were, (2) the backup is renamed over the
\* target, (3) the safety copy is renamed into the backup slot; when all
\* three succeeded the target and the backup both hold the backup's content
\* and no safety file remains
C18_RollbackProtocol ==
  /\ pc = "rb_copy" => (fs[doubleBak].ex /\ Holds(backupPath, orig))
  /\ pc = "rb_restore" => (Holds(doubleBak, orig) /\ Holds(backupPath, orig))
  /\ pc = "rb_keep" =>
       (Holds(path, orig) /\ ~fs[backupPath].ex /\ Holds(doubleBak, orig))
  /\ (pc = "done" /\ rollbackCalled /\ ~rollbackFailed) =>
       (Holds(path, orig) /\ Holds(backupPath, orig) /\ ~fs[doubleBak].ex)

\* C18 witness: a run that failed before any temp file was made and whose
\* rollback went through all three steps
C18_Witness ==
  /\ pc = "done" /\ rollbackCalled /\ ~rollbackFailed
  /\ orig # <<>> /\ ~fs[tempPath].ex
  /\ Holds(path, orig) /\ Holds(backupPath, orig) /\ ~fs[doubleBak].ex

\* C19: while rollback makes its safety copy neither the target nor the
\* backup changes; rollback goes on to the renames only with a complete
\* safety copy, and otherwise returns, cleanLog returning its error
C19_SafetyCopyFailure ==
  [][ (pc = "rollback" \/ pc = "rb_copy") =>
        ( /\ fs'[path] = fs[path]
          /\ fs'[backupPath] = fs[backupPath]
          /\ pc' \in { "rb_copy", "rb_restore", "done" }
          /\ pc' = "rb_restore" => fs'[doubleBak] = File(fs[backupPath].data)
          /\ pc' = "done" => (rollbackFailed' /\ result' = "err") ) ]_vars

\* C19 witness: the safety copy was written in part only and cleanLog has
\* returned its error; target and backup are as they were
C19_Witness ==
  /\ pc = "done" /\ result = "err" /\ rollbackFailed
  /\ fs[doubleBak].ex /\ fs[doubleBak].data # orig
  /\ fs[tempPath].ex
  /\ Holds(path, orig) /\ Holds(backupPath, orig)

\* the content a run on orig is to leave in the target
FinalContent ==
  FileBytes(Trim(ExcludeFilter(DateFilter(OrigLines, dateFormat), exclude), maxRows), TRUE)

\* C20: from the start of cleanLog until it returns, on every path, the
\* target exists and holds either the complete pre-run content or the
\* complete final content
C20_TargetComplete ==
  argError = "" =>
    /\ fs[path].ex
    /\ fs[path].data = orig \/ (pc = "done" /\ fs[path].data = FinalContent)

\* C21: every input line of at most 1 MiB is read in full and without error;
\* only a longer line fails the read, and then with a read error followed by
\* rollback, which leaves the target with its pre-run content
C21_LineCap ==
  /\ ~LineAtLeast(orig, 0, LineCapMiB + 1) => scanErr # "token too long"
  /\ scanErr = "token too long" =>
       /\ operationFailed
       /\ (pc = "done" /\ ~rollbackFailed) =>
            (result = "err" /\ rollbackCalled /\ Holds(path, orig))

\* C22: every handle opened by cleanLog, copyFile or rollback is closed when
\* cleanLog has returned, on every path; the handle on the backup (and the
\* one on the temp file) is closed before rollback starts, no handle is open
\* while rollback renames, and the temp file is closed before it is renamed
C22_HandlesClosed ==
  /\ pc = "done" => handles = {}
  /\ pc \in { "rollback", "rb_copy", "rb_restore", "rb_keep" } =>
       ("file" \notin handles /\ "tempFile" \notin handles)
  /\ pc \in { "rb_restore", "rb_keep" } => handles = {}
  /\ pc = "rename" => "tempFile" \notin handles

\* C22 witness: the commit rename failed with the backup open for reading;
\* rollback is about to rename the backup and no handle is open
C22_Witness ==
  /\ pc = "rb_restore"
  /\ finalLines # <<>> /\ wi > Len(finalLines)
  /\ fs[tempPath].ex
  /\ handles = {}

\* C23: a second successful run with the same options on the result of a
\* first successful run leaves the target's content unchanged (both runs
\* having written out their buffers)
C23_Idempotent ==
  (runs > 1 /\ prevResult = "ok" /\ ~prevFlushErr
     /\ pc = "done" /\ result = "ok" /\ ~flushErr)
    => Holds(path, orig)

\* C23 witness: the first run changed the file and merged a continuation
\* into an entry; the second run read that entry back and has succeeded
C23_Witness ==
  /\ runs = 2 /\ prevResult = "ok" /\ ~prevFlushErr
  /\ pc = "done" /\ result = "ok" /\ ~flushErr
  /\ Active
  /\ \E n \in 1..MaxRuns : recorded[n].ex /\ recorded[n].data # orig
  /\ \E i \in 1..Len(allLines) : Len(SplitSP(allLines[i], <<>>)) > 1
  /\ Holds(path, orig)

\* C24: after cleanLog has returned, on success or on any failure, no temp
\* file made by the run remains
C24_NoTempLeft ==
  pc = "done" => \A n \in 1..MaxRuns : ~fs[TempName(n)].ex

\* the parseable leading timestamps do not decrease in file order
NonDecreasing(lines) ==
  \A i, j \in 1..Len(lines) :
    (i < j /\ ~Stamp(lines[i]).err /\ ~Stamp(lines[j]).err)
      => Stamp(lines[i]).t <= Stamp(lines[j]).t

\* the reference pipeline: group the lines by timestamp prefix, then drop the
\* entries without a timestamp or with one before minDate
RefPipeline(lines) == SelectSeq(GroupRef(lines, <<>>), Passing)

\* C25: for every line sequence whose parseable leading timestamps are
\* non-decreasing and every valid minDate, the single-pass loop yields
\* exactly the entries of the reference pipeline
C25_FusedLoopRefines ==
  (Active /\ Filtered /\ NonDecreasing(allLines))
    => filteredLines = RefPipeline(allLines)

\* C25 witness: a too-old entry with a continuation, then an entry at
\* minDate: the reference pipeline drops the first group whole, the loop
\* never kept its lines
C25_Witness ==
  /\ Active /\ Filtered /\ NonDecreasing(allLines)
  /\ Len(allLines) = 3
  /\ TooOld(allLines[1]) /\ Stamp(allLines[2]).err /\ Passing(allLines[3])
  /\ Len(GroupRef(allLines, <<>>)) = 2
  /\ filteredLines = << allLines[3] >>

====
